---- MODULE Spec2Model ----
(***************************************************************************)
(* Model of the web crawler in src/main.rs: the seed fetch of the root     *)
(* URL, the layer loop of main, the output steps that follow it, and the   *)
(* pure helpers is_same_domain, depth_control, get_url and get_links.      *)
(*                                                                         *)
(* A URL string is a sequence of tokens: a scheme token ("https://",       *)
(* "http://", "mailto:"), a host token, and path tokens in which "/" is    *)
(* the separator and every other token is a path segment.                  *)
(***************************************************************************)
EXTENDS Integers, Sequences, FiniteSets, TLC

VARIABLES
    config,         \* Config built by parse_args
    pc,             \* position of main
    visited,        \* HashSet<String> visited
    to_visit,       \* Vec<String> to_visit (the frontier)
    error_links,    \* Vec<String> error_links
    current_layer,  \* the part of current_layer the for loop has not consumed yet
    seed_fetch,     \* outcome of get_html(&config.root_url): "none", "ok" or "err"
    loop_fetches,   \* URL -> number of get_html calls the layer loop made for it
    log,            \* URL -> number of log::info! lines the crawl wrote for it
    listing,        \* the final listing of visited in the log
    file,           \* the output file
    on_example,     \* every fetch so far succeeded and served the example site
    on_shared,      \* every fetch so far succeeded and served the shared-link site
    discovered,     \* every URL get_links has pushed onto to_visit so far
    fn_in,          \* inputs of a direct call of a helper function
    fn_out          \* its result

vars == <<config, pc, visited, to_visit, error_links, current_layer, seed_fetch,
          loop_fetches, log, listing, file, on_example, on_shared, discovered,
          fn_in, fn_out>>

-----------------------------------------------------------------------------
(* Bounds *)

\* the largest number of anchor elements in one page
MaxAnchors == 2
\* counters of fetches and log lines stop counting here
Saturate == 2

-----------------------------------------------------------------------------
(* URL strings and url::Url *)

None == "<none>"
ParseError == [ok |-> FALSE]

HttpSchemes == {"https://", "http://"}

\* Url::parse on a token string: an http(s) URL needs a host; "mailto:" is a
\* URL without host that cannot be a base; anything else is a relative
\* reference, which does not parse without a base.
UrlParse(s) ==
    IF s = <<>> THEN ParseError
    ELSE IF s[1] \in HttpSchemes
         THEN IF Len(s) >= 2 /\ s[2] # "/"
              THEN [ok |-> TRUE, scheme |-> s[1], host |-> s[2],
                    path |-> IF Len(s) = 2 THEN <<"/">> ELSE SubSeq(s, 3, Len(s)),
                    cannot_be_a_base |-> FALSE]
              ELSE ParseError
         ELSE IF s[1] = "mailto:"
              THEN [ok |-> TRUE, scheme |-> s[1], host |-> None,
                    path |-> Tail(s), cannot_be_a_base |-> TRUE]
              ELSE ParseError

\* String::from(Url): the serialization of a parsed URL
UrlString(u) ==
    IF u.cannot_be_a_base THEN <<u.scheme>> \o u.path
    ELSE <<u.scheme, u.host>> \o u.path

\* Url::parse(s).ok().and_then(|u| u.host_str())
host_str(s) == IF UrlParse(s).ok THEN UrlParse(s).host ELSE None

\* Url::path_segments: the path split on "/", after its leading "/"
RECURSIVE PathSegments(_)
PathSegments(p) ==
    IF p = <<>> THEN <<>>
    ELSE IF p[1] = "/"
         THEN IF Len(p) >= 2 /\ p[2] # "/"
              THEN <<p[2]>> \o PathSegments(SubSeq(p, 3, Len(p)))
              ELSE <<"">> \o PathSegments(Tail(p))
         ELSE <<p[1]>> \o PathSegments(Tail(p))

RECURSIVE CountNonEmpty(_)
CountNonEmpty(segs) ==
    IF segs = <<>> THEN 0
    ELSE (IF segs[1] # "" THEN 1 ELSE 0) + CountNonEmpty(Tail(segs))

\* the position of the last "/" of a path, 0 when there is none
RECURSIVE LastSlash(_)
LastSlash(p) ==
    IF p = <<>> THEN 0
    ELSE IF p[Len(p)] = "/" THEN Len(p)
         ELSE LastSlash(SubSeq(p, 1, Len(p) - 1))

\* Url::join: the reference resolved against a parsed base, or ParseError
UrlJoin(base, sub) ==
    IF UrlParse(sub).ok THEN UrlParse(sub)
    ELSE IF base.cannot_be_a_base THEN ParseError
    ELSE IF sub = <<>> THEN base
    ELSE IF sub[1] = "/" THEN [base EXCEPT !.path = sub]
    ELSE [base EXCEPT !.path = SubSeq(base.path, 1, LastSlash(base.path)) \o sub]

strip_suffix_slash(s) ==
    IF s # <<>> /\ s[Len(s)] = "/" THEN SubSeq(s, 1, Len(s) - 1) ELSE s

strip_prefix_slash(s) ==
    IF s # <<>> /\ s[1] = "/" THEN Tail(s) ELSE s

-----------------------------------------------------------------------------
(* The helpers of main.rs *)

is_same_domain(root, candidate) ==
    host_str(root) = host_str(candidate)

depth_control(url, depth) ==
    IF depth = 0 THEN FALSE
    ELSE IF ~UrlParse(url).ok THEN FALSE
    ELSE LET count == IF UrlParse(url).cannot_be_a_base THEN -1
                      ELSE CountNonEmpty(PathSegments(UrlParse(url).path))
         IN  count = depth

get_url(root, sub) ==
    IF sub # <<>> /\ sub[1] \in HttpSchemes THEN sub
    ELSE IF UrlParse(root).ok /\ UrlJoin(UrlParse(root), sub).ok
         THEN UrlString(UrlJoin(UrlParse(root), sub))
         ELSE strip_suffix_slash(root) \o <<"/">> \o strip_prefix_slash(sub)

Contains(seq, x) == \E i \in 1..Len(seq) : seq[i] = x

\* An anchor element is its href attribute, or NoHref when it has none; a
\* page is the sequence of its anchor elements.
NoHref == <<"<a>">>

\* get_links that leaves out the links main has visited already
RECURSIVE get_links_unvisited(_, _, _)
get_links_unvisited(html, url, results) ==
    IF html = <<>> THEN results
    ELSE LET val == html[1]
             absolute == get_url(url, val)
         IN  IF val = NoHref THEN get_links_unvisited(Tail(html), url, results)
             ELSE IF ~Contains(results, absolute) /\ absolute \notin visited
                  THEN get_links_unvisited(Tail(html), url, Append(results, absolute))
                  ELSE get_links_unvisited(Tail(html), url, results)

\* get_links without the test of results.contains
RECURSIVE get_links_repeating(_, _, _)
get_links_repeating(html, url, results) ==
    IF html = <<>> THEN results
    ELSE LET val == html[1]
             absolute == get_url(url, val)
         IN  IF val = NoHref THEN get_links_repeating(Tail(html), url, results)
             ELSE get_links_repeating(Tail(html), url, Append(results, absolute))

RECURSIVE get_links(_, _, _)
get_links(html, url, results) ==
    IF html = <<>> THEN results
    ELSE LET val == html[1]
             absolute == get_url(url, val)
         IN  IF val = NoHref THEN get_links(Tail(html), url, results)
             ELSE IF ~Contains(results, absolute)
                  THEN get_links(Tail(html), url, Append(results, absolute))
                  ELSE get_links(Tail(html), url, results)

-----------------------------------------------------------------------------
(* The sites and configurations explored *)

RootUrl  == <<"https://", "example.com", "/">>
UrlA     == <<"https://", "example.com", "/", "a">>
UrlAB    == <<"https://", "example.com", "/", "a", "/", "b">>
UrlOther == <<"https://", "other.com", "/", "x">>

Hrefs == {RootUrl, <<"/", "a">>, <<"/", "a", "/", "b">>, UrlOther}
Anchors == Hrefs \cup {NoHref}

SeqsUpTo(S, n) == UNION {[1..k -> S] : k \in 0..n}
Pages == SeqsUpTo(Anchors, MaxAnchors)

\* the site of the end-to-end example: the root links to /a, and /a links
\* back to the root and to a page of another domain
ExamplePage(url) ==
    IF url = RootUrl THEN <<(<<"/", "a">>)>>
    ELSE IF url = UrlA THEN <<RootUrl, UrlOther>>
    ELSE <<>>

\* a site in which two pages of one layer link to the same URL: the root links
\* to /a and /a/b, and each of them links back to the root
SharedPage(url) ==
    IF url = RootUrl THEN <<(<<"/", "a">>), (<<"/", "a", "/", "b">>)>>
    ELSE IF url \in {UrlA, UrlAB} THEN <<RootUrl>>
    ELSE <<>>

\* the values of -d explored: no limit, and the two depths the site has below
\* its root
Depths == {0, 1, 2}

Configs == [root_url : {RootUrl}, depth : Depths, verbose : BOOLEAN,
            response_error : BOOLEAN, output_file : {"None", "PlainText", "Json"}]

\* saturating counters per URL
Count(f, u) == IF u \in DOMAIN f THEN f[u] ELSE 0
Bump(f, u) ==
    [x \in DOMAIN f \cup {u} |->
        IF x = u THEN (IF Count(f, u) < Saturate THEN Count(f, u) + 1 ELSE Saturate)
        ELSE f[x]]
NoCounts == [x \in {} |-> 0]

Range(seq) == {seq[i] : i \in 1..Len(seq)}

\* What a successful get_html(url) followed by get_links(&html, url, results)
\* can leave in results, over every page the server may send; with it,
\* whether the page sent is the example site's page for url, and whether it
\* is the shared-link site's.
Fetched(url, results) ==
    {<<get_links(html, url, results), html = ExamplePage(url),
       html = SharedPage(url)>> : html \in Pages}

\* the final listing before main reaches it
NotReported == [reported |-> FALSE, urls |-> {}]

\* no helper is called directly during a run of main
NoCall == [fn |-> "none"]
NoResult == [done |-> FALSE]

-----------------------------------------------------------------------------
(* main: construction and the seed fetch *)

Init ==
    /\ config \in Configs
    /\ pc = "seed"
    /\ visited = {}
    /\ to_visit = <<>>
    /\ error_links = <<>>
    /\ current_layer = <<>>
    /\ seed_fetch = "none"
    /\ loop_fetches = NoCounts
    /\ log = NoCounts
    /\ listing = NotReported
    /\ file = [format |-> config.output_file, written |-> FALSE, urls |-> {}]
    /\ on_example = TRUE
    /\ on_shared = TRUE
    /\ discovered = {}
    /\ fn_in = NoCall
    /\ fn_out = NoResult

\* SeedOk with the root recorded as visited
SeedOk_root_visited ==
    /\ pc = "seed"
    /\ \E got \in Fetched(config.root_url, <<>>) :
        /\ to_visit' = got[1]
        /\ on_example' = (on_example /\ got[2])
        /\ on_shared' = (on_shared /\ got[3])
        /\ discovered' = Range(got[1])
    /\ seed_fetch' = "ok"
    /\ visited' = {config.root_url}
    /\ error_links' = <<>>
    /\ pc' = "while"
    /\ UNCHANGED <<config, current_layer, loop_fetches, log, listing,
                   file, fn_in, fn_out>>

\* get_html(&config.root_url) returned Ok(html): the links of the root page
\* become the first frontier
SeedOk ==
    /\ pc = "seed"
    /\ \E got \in Fetched(config.root_url, <<>>) :
        /\ to_visit' = got[1]
        /\ on_example' = (on_example /\ got[2])
        /\ on_shared' = (on_shared /\ got[3])
        /\ discovered' = Range(got[1])
    /\ seed_fetch' = "ok"
    /\ visited' = {}
    /\ error_links' = <<>>
    /\ pc' = "while"
    /\ UNCHANGED <<config, current_layer, loop_fetches, log, listing,
                   file, fn_in, fn_out>>

\* SeedErr with the error swallowed: main goes on with an empty root page
SeedErr_swallowed ==
    /\ pc = "seed"
    /\ seed_fetch' = "err"
    /\ on_example' = FALSE
    /\ on_shared' = FALSE
    /\ to_visit' = <<>>
    /\ pc' = "while"
    /\ UNCHANGED <<config, visited, error_links, current_layer, loop_fetches, log,
                   listing, file, fn_in, fn_out, discovered>>

\* get_html(&config.root_url) returned Err: the ? operator returns from main
SeedErr ==
    /\ pc = "seed"
    /\ seed_fetch' = "err"
    /\ on_example' = FALSE
    /\ on_shared' = FALSE
    /\ pc' = "failed"
    /\ UNCHANGED <<config, visited, to_visit, error_links, current_layer,
                   loop_fetches, log, listing, file, fn_in, fn_out, discovered>>

-----------------------------------------------------------------------------
(* main: the layer loop *)

\* LayerStart without to_visit.clear()
LayerStart_uncleared ==
    /\ pc = "while"
    /\ to_visit # <<>>
    /\ current_layer' = to_visit
    /\ pc' = "for"
    /\ UNCHANGED <<config, visited, to_visit, error_links, seed_fetch,
                   loop_fetches, log, listing, file, on_example, fn_in, fn_out,
                   on_shared, discovered>>

\* while !to_visit.is_empty(): snapshot the frontier and clear it
LayerStart ==
    /\ pc = "while"
    /\ to_visit # <<>>
    /\ current_layer' = to_visit
    /\ to_visit' = <<>>
    /\ pc' = "for"
    /\ UNCHANGED <<config, visited, error_links, seed_fetch, loop_fetches, log,
                   listing, file, on_example, fn_in, fn_out,
                   on_shared, discovered>>

\* the while condition is false
LoopExit ==
    /\ pc = "while"
    /\ to_visit = <<>>
    /\ pc' = "write"
    /\ UNCHANGED <<config, visited, to_visit, error_links, current_layer,
                   seed_fetch, loop_fetches, log, listing, file,
                   on_example, fn_in, fn_out,
                   on_shared, discovered>>

\* the for loop goes on with the rest of the layer, or ends
AfterLink(rest) == IF rest = <<>> THEN "while" ELSE "for"

\* had_request_error with the check of error_links left out
had_request_error_unchecked(link) == FALSE

\* if error_links.contains(&link)
had_request_error(link) == Contains(error_links, link)

\* if !visited.contains(&link) { if config.verbose { log::info!(link) } }
verbose_log(link) ==
    IF link \notin visited /\ config.verbose THEN Bump(log, link) ELSE log

\* skip_link without the domain and depth filters
skip_link_unfiltered(link) == link \in visited

\* visited.contains(&link) || !is_same_domain(..) || depth_control(..)
skip_link(link) ==
    \/ link \in visited
    \/ ~is_same_domain(config.root_url, link)
    \/ depth_control(link, config.depth)

\* ForSkipError with the failed link fetched once more
ForSkipError_retry ==
    /\ pc = "for"
    /\ LET link == Head(current_layer) IN
        /\ had_request_error(link)
        /\ loop_fetches' = Bump(loop_fetches, link)
        /\ visited' = visited \ {link}
    /\ current_layer' = Tail(current_layer)
    /\ pc' = AfterLink(Tail(current_layer))
    /\ UNCHANGED <<config, to_visit, error_links, seed_fetch, log,
                   listing, file, on_example, fn_in, fn_out,
                   on_shared, discovered>>

\* the link had a request error: visited.remove(&link); continue
ForSkipError ==
    /\ pc = "for"
    /\ LET link == Head(current_layer) IN
        /\ had_request_error(link)
        /\ visited' = visited \ {link}
    /\ current_layer' = Tail(current_layer)
    /\ pc' = AfterLink(Tail(current_layer))
    /\ UNCHANGED <<config, to_visit, error_links, seed_fetch, loop_fetches, log,
                   listing, file, on_example, fn_in, fn_out,
                   on_shared, discovered>>

\* ForSkip without visited.insert(link)
ForSkip_unmarked ==
    /\ pc = "for"
    /\ LET link == Head(current_layer) IN
        /\ ~had_request_error(link)
        /\ skip_link(link)
        /\ log' = verbose_log(link)
    /\ current_layer' = Tail(current_layer)
    /\ pc' = AfterLink(Tail(current_layer))
    /\ UNCHANGED <<config, visited, to_visit, error_links, seed_fetch,
                   loop_fetches, listing, file, on_example, fn_in, fn_out,
                   on_shared, discovered>>

\* already visited, from another domain, or at the depth limit:
\* visited.insert(link); continue
ForSkip ==
    /\ pc = "for"
    /\ LET link == Head(current_layer) IN
        /\ ~had_request_error(link)
        /\ skip_link(link)
        /\ log' = verbose_log(link)
        /\ visited' = visited \cup {link}
    /\ current_layer' = Tail(current_layer)
    /\ pc' = AfterLink(Tail(current_layer))
    /\ UNCHANGED <<config, to_visit, error_links, seed_fetch, loop_fetches,
                   listing, file, on_example, fn_in, fn_out,
                   on_shared, discovered>>

\* ForFetchOk with the links pushed onto the layer being walked
ForFetchOk_same_layer ==
    /\ pc = "for"
    /\ LET link == Head(current_layer) IN
        /\ ~had_request_error(link)
        /\ ~skip_link(link)
        /\ log' = verbose_log(link)
        /\ loop_fetches' = Bump(loop_fetches, link)
        /\ visited' = visited \cup {link}
        /\ \E got \in Fetched(link, Tail(current_layer)) :
            /\ current_layer' = got[1]
            /\ on_example' = (on_example /\ got[2])
            /\ on_shared' = (on_shared /\ got[3])
            /\ discovered' = discovered \cup Range(got[1])
            /\ pc' = AfterLink(got[1])
    /\ UNCHANGED <<config, to_visit, error_links, seed_fetch, listing, file,
                   fn_in, fn_out>>

\* get_html(&link) returned Ok(html)
ForFetchOk ==
    /\ pc = "for"
    /\ LET link == Head(current_layer) IN
        /\ ~had_request_error(link)
        /\ ~skip_link(link)
        /\ log' = verbose_log(link)
        /\ loop_fetches' = Bump(loop_fetches, link)
        /\ visited' = visited \cup {link}
        /\ \E got \in Fetched(link, to_visit) :
            /\ to_visit' = got[1]
            /\ on_example' = (on_example /\ got[2])
            /\ on_shared' = (on_shared /\ got[3])
            /\ discovered' = discovered \cup Range(got[1])
    /\ current_layer' = Tail(current_layer)
    /\ pc' = AfterLink(Tail(current_layer))
    /\ UNCHANGED <<config, error_links, seed_fetch, listing, file,
                   fn_in, fn_out>>

\* ForFetchErr with the error propagated by ?, as the seed fetch does
ForFetchErr_propagated ==
    /\ pc = "for"
    /\ LET link == Head(current_layer) IN
        /\ ~had_request_error(link)
        /\ ~skip_link(link)
        /\ loop_fetches' = Bump(loop_fetches, link)
        /\ log' = verbose_log(link)
    /\ on_example' = FALSE
    /\ on_shared' = FALSE
    /\ pc' = "failed"
    /\ UNCHANGED <<config, visited, to_visit, error_links, current_layer,
                   seed_fetch, listing, file, fn_in, fn_out, discovered>>

\* ForFetchErr with visited.insert in the place of visited.remove
ForFetchErr_marked ==
    /\ pc = "for"
    /\ LET link == Head(current_layer) IN
        /\ ~had_request_error(link)
        /\ ~skip_link(link)
        /\ loop_fetches' = Bump(loop_fetches, link)
        /\ error_links' = Append(error_links, link)
        /\ visited' = visited \cup {link}
        /\ log' = IF config.response_error
                  THEN Bump(verbose_log(link), link)
                  ELSE verbose_log(link)
    /\ on_example' = FALSE
    /\ on_shared' = FALSE
    /\ current_layer' = Tail(current_layer)
    /\ pc' = AfterLink(Tail(current_layer))
    /\ UNCHANGED <<config, to_visit, seed_fetch, listing, file, fn_in, fn_out,
                   discovered>>

\* get_html(&link) returned Err(e)
ForFetchErr ==
    /\ pc = "for"
    /\ LET link == Head(current_layer) IN
        /\ ~had_request_error(link)
        /\ ~skip_link(link)
        /\ loop_fetches' = Bump(loop_fetches, link)
        /\ error_links' = Append(error_links, link)
        /\ visited' = visited \ {link}
        /\ log' = IF config.response_error
                  THEN Bump(verbose_log(link), link)
                  ELSE verbose_log(link)
    /\ on_example' = FALSE
    /\ on_shared' = FALSE
    /\ current_layer' = Tail(current_layer)
    /\ pc' = AfterLink(Tail(current_layer))
    /\ UNCHANGED <<config, to_visit, seed_fetch, listing, file, fn_in, fn_out,
                   discovered>>

-----------------------------------------------------------------------------
(* main: output *)

\* if let Some(output) = config.output_file: one line, or one found_urls
\* entry, per member of visited
WriteOutput ==
    /\ pc = "write"
    /\ file' = IF config.output_file = "None" THEN file
               ELSE [file EXCEPT !.written = TRUE, !.urls = visited]
    /\ pc' = "fold"
    /\ UNCHANGED <<config, visited, to_visit, error_links, current_layer,
                   seed_fetch, loop_fetches, log, listing, on_example,
                   fn_in, fn_out,
                   on_shared, discovered>>

\* if config.response_error { for item in error_links { visited.insert(item) } }
FoldErrors ==
    /\ pc = "fold"
    /\ visited' = IF config.response_error
                  THEN visited \cup {error_links[i] : i \in 1..Len(error_links)}
                  ELSE visited
    /\ pc' = "report"
    /\ UNCHANGED <<config, to_visit, error_links, current_layer, seed_fetch,
                   loop_fetches, log, listing, file, on_example,
                   fn_in, fn_out,
                   on_shared, discovered>>

\* if !config.verbose { log every member of visited }; "Crawling completed!"
Report ==
    /\ pc = "report"
    /\ listing' = IF ~config.verbose THEN [reported |-> TRUE, urls |-> visited]
                  ELSE listing
    /\ pc' = "done"
    /\ UNCHANGED <<config, visited, to_visit, error_links, current_layer,
                   seed_fetch, loop_fetches, log, file, on_example,
                   fn_in, fn_out,
                   on_shared, discovered>>

Next ==
    \/ SeedErr
    \/ SeedOk
    \/ LayerStart
    \/ LoopExit
    \/ ForSkipError
    \/ ForSkip
    \/ ForFetchErr
    \/ ForFetchOk
    \/ WriteOutput
    \/ FoldErrors
    \/ Report

Spec == Init /\ [][Next]_vars

\* main runs to its end: nothing but a fetch suspends it, and every fetch
\* returns. Proceed is enabled exactly where Next is (a fetch that can succeed
\* can fail), so weak fairness of Proceed rules out the behaviours in which
\* main stops before its end, and no others; it does not say which result a
\* fetch has.
Proceed ==
    \/ SeedErr
    \/ LayerStart
    \/ LoopExit
    \/ ForSkipError
    \/ ForSkip
    \/ ForFetchErr
    \/ WriteOutput
    \/ FoldErrors
    \/ Report

FairSpec == Spec /\ WF_vars(Proceed)

-----------------------------------------------------------------------------
(* Direct calls of the helpers *)

UrlStrings ==
    {RootUrl, UrlA, UrlAB, UrlOther,
     <<"http://", "example.com", "/">>,     \* another scheme, the same host
     <<"https://", "example.com">>,         \* no path
     <<"mailto:", "m">>,                    \* parses, has no host
     <<"/", "a">>,                          \* a relative reference: no parse
     <<"https://">>,                        \* an empty host: no parse
     <<>>}                                  \* the empty string: no parse

\* the URL strings depth_control is called with: UrlStrings, and a path that
\* ends in "/"
DepthUrls == UrlStrings \cup {<<"https://", "example.com", "/", "a", "/", "b", "/">>}

\* the depths it is called with: parse_args takes any i32
DepthArgs == -1..3

\* the vectors get_links is called with: empty as at the seed, or holding
\* what earlier pages of the layer put there
ResultsArgs == {<<>>, <<UrlA>>, <<RootUrl, UrlOther>>}

\* the contents of visited at a direct call
VisitedArgs == {{}, {UrlA}, {RootUrl, UrlOther}}

FnCalls ==
    [fn : {"is_same_domain"}, root : UrlStrings, candidate : UrlStrings]
        \cup [fn : {"depth_control"}, url : DepthUrls, depth : DepthArgs]
        \cup [fn : {"get_links"}, html : Pages, url : {RootUrl, UrlAB},
              results : ResultsArgs]

FnInit ==
    /\ config = [root_url |-> RootUrl, depth |-> 0, verbose |-> FALSE,
                 response_error |-> FALSE, output_file |-> "None"]
    /\ pc = "call"
    /\ visited \in VisitedArgs
    /\ to_visit = <<>>
    /\ error_links = <<>>
    /\ current_layer = <<>>
    /\ seed_fetch = "none"
    /\ loop_fetches = NoCounts
    /\ log = NoCounts
    /\ listing = NotReported
    /\ file = [format |-> "None", written |-> FALSE, urls |-> {}]
    /\ on_example = FALSE
    /\ on_shared = FALSE
    /\ discovered = {}
    /\ fn_in \in FnCalls
    /\ fn_out = NoResult

CallIsSameDomain ==
    /\ pc = "call"
    /\ fn_in.fn = "is_same_domain"
    /\ fn_out' = [done |-> TRUE,
                  value |-> is_same_domain(fn_in.root, fn_in.candidate)]
    /\ pc' = "returned"
    /\ UNCHANGED <<config, visited, to_visit, error_links, current_layer,
                   seed_fetch, loop_fetches, log, listing, file, on_example, fn_in,
                   on_shared, discovered>>

CallDepthControl ==
    /\ pc = "call"
    /\ fn_in.fn = "depth_control"
    /\ fn_out' = [done |-> TRUE, value |-> depth_control(fn_in.url, fn_in.depth)]
    /\ pc' = "returned"
    /\ UNCHANGED <<config, visited, to_visit, error_links, current_layer,
                   seed_fetch, loop_fetches, log, listing, file, on_example, fn_in,
                   on_shared, discovered>>

\* get_links(&html, url, &mut results): the result is results after the call
CallGetLinks ==
    /\ pc = "call"
    /\ fn_in.fn = "get_links"
    /\ fn_out' = [done |-> TRUE,
                  value |-> get_links(fn_in.html, fn_in.url, fn_in.results)]
    /\ pc' = "returned"
    /\ UNCHANGED <<config, visited, to_visit, error_links, current_layer,
                   seed_fetch, loop_fetches, log, listing, file, on_example, fn_in,
                   on_shared, discovered>>

FnNext ==
    \/ CallIsSameDomain
    \/ CallDepthControl
    \/ CallGetLinks

FnSpec == FnInit /\ [][FnNext]_vars

-----------------------------------------------------------------------------
(* Notions the properties below are stated with *)

ErrorSet == {error_links[i] : i \in 1..Len(error_links)}

\* the number of get_html calls of a whole run for a URL: the seed fetch of
\* the root and the fetches of the layer loop
TotalFetches(u) ==
    (IF u = config.root_url /\ seed_fetch # "none" THEN 1 ELSE 0)
        + Count(loop_fetches, u)

LoopFetched == {u \in DOMAIN loop_fetches : loop_fetches[u] > 0}

\* host and number of non-empty path segments of an http(s) URL string, read
\* off the string
HostOf(u) == IF Len(u) >= 2 /\ u[1] \in HttpSchemes THEN u[2] ELSE None
SegmentCount(u) == Cardinality({i \in 3..Len(u) : u[i] # "/"})

InCrawl == pc \in {"seed", "while", "for"}

-----------------------------------------------------------------------------
(* Properties *)

\* C1: during the crawl (the seed and the layer loop) no URL whose fetch has
\* failed is a member of visited: error_links and visited are disjoint.
C1_ErrorsNotVisited == InCrawl => ErrorSet \cap visited = {}

\* a failed URL has come back in a later layer, next to visited URLs
C1_Witness ==
    /\ pc = "for"
    /\ had_request_error(Head(current_layer))
    /\ visited # {}
    /\ Len(error_links) >= 2

\* C2: over a whole run every URL is fetched at most once, the seed fetch of
\* the root included.
C2_FetchedAtMostOnce ==
    \A u \in DOMAIN loop_fetches \cup {config.root_url} : TotalFetches(u) <= 1

\* C3: once the root is fetched, the layer loop reaches an empty frontier and
\* main runs to its end, whatever the pages link to and whatever the fetches
\* return.
C3_CrawlTerminates ==
    (seed_fetch = "ok") ~> (pc = "done" /\ to_visit = <<>> /\ current_layer = <<>>)

\* the crawl has ended after following a cycle: /a was fetched, and the root
\* again through a link back to it
C3_Witness ==
    /\ pc = "done"
    /\ Count(loop_fetches, UrlA) = 1
    /\ Count(loop_fetches, RootUrl) = 1
    /\ UrlAB \in ErrorSet

\* C4: on the example site, with depth 0 and every fetch succeeding, the
\* crawl ends with visited = {root, /a}; the URL of the other domain is not in
\* it.
C4_ExampleVisited ==
    (pc = "done" /\ on_example /\ config.depth = 0) => visited = {RootUrl, UrlA}

C6_NothingDeeperFetched ==
    config.depth > 0 => \A u \in LoopFetched : SegmentCount(u) <= config.depth

\* C7: with -e, once main is done every URL whose fetch failed is in the
\* final listing of the log and, when an output file is selected, in the file.
C7_ErrorsInOutput ==
    (pc = "done" /\ config.response_error) =>
        \A u \in ErrorSet :
            /\ ~config.verbose => u \in listing.urls
            /\ file.format # "None" => u \in file.urls

\* C8: a fetch failure in the layer loop does not abort the run: the URL is
\* appended to error_links after its one fetch, the rest of the layer and the
\* frontier are kept, and main goes on to its end.
C8_FailureDoesNotAbort ==
    /\ [](pc = "failed" => LoopFetched = {} /\ error_links = <<>>)
    /\ [](\A u \in ErrorSet : Count(loop_fetches, u) = 1)
    /\ [][error_links' # error_links =>
            /\ error_links' = Append(error_links, Head(current_layer))
            /\ current_layer' = Tail(current_layer)
            /\ to_visit' = to_visit
            /\ pc' \in {"for", "while"}]_vars
    /\ (error_links # <<>>) ~> (pc = "done")

\* the run is done, /a failed and /a/b was processed, and failed, after it
C8_Witness ==
    /\ pc = "done"
    /\ error_links = <<UrlA, UrlAB>>
    /\ RootUrl \in visited

\* C9: when the seed fetch fails the run fails: the layer loop is not
\* entered, nothing else is fetched, and nothing is written or logged.
C9_SeedFailureIsFatal ==
    seed_fetch = "err" =>
        /\ pc = "failed"
        /\ loop_fetches = NoCounts
        /\ visited = {} /\ to_visit = <<>> /\ current_layer = <<>>
        /\ log = NoCounts
        /\ listing = NotReported
        /\ ~file.written /\ file.urls = {}

\* the seed fetch failed in a run that was to write a file
C9_Witness == seed_fetch = "err" /\ config.output_file = "Json"

\* C10: is_same_domain(root, candidate) is true exactly when both strings
\* parse and their hosts are equal, and false when either does not parse.
C10_SameDomainIffBothParse ==
    (fn_out.done /\ fn_in.fn = "is_same_domain") =>
        (fn_out.value <=>
            /\ UrlParse(fn_in.root).ok
            /\ UrlParse(fn_in.candidate).ok
            /\ UrlParse(fn_in.root).host = UrlParse(fn_in.candidate).host)

\* the number of non-empty path segments a URL string has: its path tokens
\* other than "/" when it has a host, none when it has no path segments
NonEmptySegments(u) == IF HostOf(u) # None THEN SegmentCount(u) ELSE 0

\* C11: depth_control(url, depth) is false when depth is 0 and false when
\* url does not parse; otherwise it is true exactly when the number of
\* non-empty path segments of url equals depth.
C11_DepthControlExact ==
    (fn_out.done /\ fn_in.fn = "depth_control") =>
        (fn_out.value <=>
            /\ fn_in.depth # 0
            /\ UrlParse(fn_in.url).ok
            /\ NonEmptySegments(fn_in.url) = fn_in.depth)

\* the link the for loop is at
Link == Head(current_layer)

\* C12: a link that is not in the error set and is visited already, or of
\* another host than the root's, or at the depth limit, is inserted into
\* visited, is not fetched, and leaves the frontier as it was.
C12_SkipMarksVisited ==
    [][(/\ pc = "for"
        /\ Link \notin ErrorSet
        /\ \/ Link \in visited
           \/ HostOf(Link) # HostOf(config.root_url)
           \/ config.depth # 0 /\ NonEmptySegments(Link) = config.depth)
       => /\ visited' = visited \cup {Link}
          /\ loop_fetches' = loop_fetches
          /\ to_visit' = to_visit]_vars

\* with depth 2, /a/b and the URL of the other domain are in visited and the
\* loop has fetched neither
C12_Witness ==
    /\ config.depth = 2
    /\ {UrlAB, UrlOther} \subseteq visited
    /\ {UrlAB, UrlOther} \cap LoopFetched = {}
    /\ UrlA \in LoopFetched

\* C13: a URL whose fetch failed is not fetched again: when a later layer
\* brings it back it is passed over without a fetch and is not in visited
\* afterwards, and error_links holds no URL twice.
C13_FailedNeverRefetched ==
    /\ [](\A i, j \in 1..Len(error_links) : error_links[i] = error_links[j] => i = j)
    /\ [][\A u \in ErrorSet : Count(loop_fetches', u) = Count(loop_fetches, u)]_vars
    /\ [][(pc = "for" /\ Link \in ErrorSet)
           => /\ loop_fetches' = loop_fetches
              /\ error_links' = error_links
              /\ to_visit' = to_visit
              /\ visited' \subseteq visited
              /\ Link \notin visited']_vars

\* the loop fetched the root a second time, that fetch failed, and a later
\* layer has brought the root back
C13_Witness ==
    /\ pc = "for"
    /\ Link = RootUrl
    /\ RootUrl \in ErrorSet
    /\ Count(loop_fetches, RootUrl) = 1

\* C14: the for loop walks a snapshot of the frontier taken when the layer
\* starts, head first; what a step of the loop does, it does to the head of
\* the layer, and the links it finds wait in to_visit until the layer is
\* used up.
C14_LayerByLayer ==
    /\ [](pc = "for" <=> current_layer # <<>>)
    /\ [][(pc = "while" /\ pc' = "for")
           => current_layer' = to_visit /\ to_visit' = <<>>]_vars
    /\ [][pc = "for"
           => /\ current_layer' = Tail(current_layer)
              /\ Len(to_visit') >= Len(to_visit)
              /\ SubSeq(to_visit', 1, Len(to_visit)) = to_visit
              /\ \A u \in (visited' \ visited) \cup (visited \ visited')
                          \cup (ErrorSet' \ ErrorSet) : u = Link
              /\ \A u \in DOMAIN loop_fetches' :
                    u # Link => Count(loop_fetches', u) = Count(loop_fetches, u)]_vars

\* links found in this layer wait in to_visit, unprocessed, while the layer
\* still has URLs to go
C14_Witness ==
    /\ pc = "for"
    /\ Len(to_visit) >= 2
    /\ Range(to_visit) \cap (visited \cup ErrorSet \cup Range(current_layer)) = {}

\* what get_links pushes for a page, as the claims state it: the URLs of the
\* page's hrefs, in page order, each at its first occurrence in the page
PageLinks(html, url) ==
    LET Idx == [i \in 1..Len(html) |-> i]
        First(i) ==
            /\ html[i] # NoHref
            /\ \A j \in 1..(i - 1) :
                  html[j] = NoHref \/ get_url(url, html[j]) # get_url(url, html[i])
        Kept == SelectSeq(Idx, First)
    IN  [k \in 1..Len(Kept) |-> get_url(url, html[Kept[k]])]

Without(seq, results) ==
    LET Fresh(x) == ~Contains(results, x) IN SelectSeq(seq, Fresh)

\* C15 as stated: get_links pushes the page's links deduplicated within the
\* call alone, whatever visited holds.
C15_DedupWithinCall ==
    (fn_out.done /\ fn_in.fn = "get_links") =>
        fn_out.value = fn_in.results \o PageLinks(fn_in.html, fn_in.url)

\* C15, amended: get_links pushes the page's links in first-seen order,
\* leaving out anchors without href and every URL that results holds already
\* (from this page or from an earlier one), whatever visited holds.
C15_DedupAgainstResults ==
    (fn_out.done /\ fn_in.fn = "get_links") =>
        fn_out.value =
            fn_in.results \o Without(PageLinks(fn_in.html, fn_in.url), fn_in.results)

\* a page that links to the root and to /a, read with the root in results
\* already and /a in visited: /a alone is pushed
C15_Witness ==
    /\ fn_out.done
    /\ fn_in.fn = "get_links"
    /\ fn_in.html = <<RootUrl, (<<"/", "a">>)>>
    /\ fn_in.results = <<RootUrl, UrlOther>>
    /\ visited = {UrlA}
    /\ fn_out.value = <<RootUrl, UrlOther, UrlA>>

\* C16: with -v no URL is logged twice during the crawl.
C16_LoggedAtMostOnce ==
    config.verbose => \A u \in DOMAIN log : log[u] <= 1

\* C17: when the layer loop has ended, every URL that was in the frontier is
\* in visited or in the error set and not in both, and visited holds nothing
\* else.
C17_FrontierPartition ==
    pc = "write" =>
        /\ discovered = visited \cup ErrorSet
        /\ visited \cap ErrorSet = {}

\* the loop has ended with visited and failed URLs, and the root, which no
\* page linked to, in neither
C17_Witness ==
    /\ pc = "write"
    /\ ErrorSet # {}
    /\ UrlOther \in visited
    /\ RootUrl \notin discovered

\* C18: in the layer loop visited only grows, and the two visited.remove
\* calls run for links that are not in visited.
C18_VisitedOnlyGrows ==
    /\ [][InCrawl => visited \subseteq visited']_vars
    /\ [][(pc = "for" /\ (Link \in ErrorSet \/ error_links' # error_links))
           => Link \notin visited]_vars

\* the loop has ended; the fetch of the root failed in it, after /a was
\* visited or before
C18_Witness ==
    /\ pc = "write"
    /\ error_links = <<RootUrl>>
    /\ visited = {UrlA, UrlOther}

NoDuplicates(seq) == \A i, j \in 1..Len(seq) : seq[i] = seq[j] => i = j

\* C19: the frontier and the current layer never hold a URL twice.
C19_NoDuplicateLinks == NoDuplicates(to_visit) /\ NoDuplicates(current_layer)

\* on the shared-link site /a and /a/b, fetched in one layer, both link to
\* the root, and the frontier holds the root once
C19_Witness ==
    /\ on_shared
    /\ pc = "while"
    /\ LoopFetched = {UrlA, UrlAB}
    /\ to_visit = <<RootUrl>>

====
